---- MODULE Spec2Model ----
(***************************************************************************)
(* A model of the BN-220 NMEA decoder of src/BN220.c: the checksum        *)
(* verifier getChecksum, the four sentence decoders nmea_GLL, nmea_GSA,    *)
(* nmea_GGA and nmea_GSV, and the batch dispatcher gpsParse.               *)
(*                                                                         *)
(* Representation.                                                         *)
(*  - A character is its ASCII code; a C string is the sequence of its     *)
(*    characters without the terminating NUL; the receive buffer is a      *)
(*    sequence of bytes that ends with its NUL, so that the NULs strtok    *)
(*    writes into it are visible.                                          *)
(*  - A float or double is the exact decimal it was read from: strtof      *)
(*    yields a fixed-point number of FScale units per one, and a           *)
(*    coordinate in degrees is counted in units of 1/(60*FScale) degree,   *)
(*    so whole + minutes/60 is exact.  Binary rounding of float is not     *)
(*    modelled.                                                            *)
(*  - The numeric fields of the enumerated sentences hold digits, one      *)
(*    point and at most four decimals (no exponent, inf, nan or hex        *)
(*    float), and a coordinate field that reaches the memcpy calls of a    *)
(*    decoder is long enough for them (NoShortCopy checks this), so the    *)
(*    decoders read no byte outside a token.                               *)
(*  - malloc and strdup are taken to succeed.                              *)
(***************************************************************************)
EXTENDS Integers, Sequences, FiniteSets, TLC

VARIABLES
  gps,       \* the caller's BN220_GPS (BN220.h:42-52)
  buffer,    \* the caller's receive buffer, the bytes gpsParse is given
  data,      \* char* data[15]: the candidates copied so far (BN220.c:38)
  cnt,       \* gpsParse's cnt (BN220.c:292)
  i,         \* the index of the dispatch loop (BN220.c:298)
  sentence,  \* gpsParse's sentence: an offset into buffer, 0 for NULL
  save,      \* the position strtok keeps between calls
  pc,        \* "idle", "split", "dispatch", "done"; "chk", "chkdone"
  calls,     \* gpsParse calls made on this buffer
  last,      \* the last turn of the dispatch loop: decoder, sentence,
             \* return value and the FixRecord before it
  gps0,      \* the FixRecord at entry of the current call
  buf0,      \* the buffer at entry of the current call
  orig,      \* the buffer as received
  cs_in,     \* the argument of the last getChecksum call
  cs_ret     \* and its return value

vars == <<gps, buffer, data, cnt, i, sentence, save, pc, calls, last, gps0,
          buf0, orig, cs_in, cs_ret>>

(***************************************************************************)
(* Characters                                                              *)
(***************************************************************************)
Punct == " !"
Punct2 == "#$%&'()*+,-./0123456789:;<=>?@ABCDEFGHIJKLMNOPQRSTUVWXYZ"
Lower == "abcdefghijklmnopqrstuvwxyz"

\* The ASCII code of a one-character string.
Ord(c) ==
  IF c = "\r" THEN 13
  ELSE IF c = "\n" THEN 10
  ELSE IF \E k \in 1..Len(Punct) : SubSeq(Punct, k, k) = c
       THEN 31 + (CHOOSE k \in 1..Len(Punct) : SubSeq(Punct, k, k) = c)
  ELSE IF \E k \in 1..Len(Punct2) : SubSeq(Punct2, k, k) = c
       THEN 34 + (CHOOSE k \in 1..Len(Punct2) : SubSeq(Punct2, k, k) = c)
  ELSE 96 + (CHOOSE k \in 1..Len(Lower) : SubSeq(Lower, k, k) = c)

\* A string literal as a C string.
S(str) == [k \in 1..Len(str) |-> Ord(SubSeq(str, k, k))]

NUL == 0

IsDigit(c) == c >= 48 /\ c <= 57
IsHexDigit(c) == IsDigit(c) \/ (c >= 65 /\ c <= 70) \/ (c >= 97 /\ c <= 102)
\* isspace: space, \t \n \v \f \r
IsSpace(c) == c = 32 \/ (c >= 9 /\ c <= 13)

DigitVal(c) ==
  IF IsDigit(c) THEN c - 48
  ELSE IF c >= 97 THEN c - 87
  ELSE c - 55

Min(a, b) == IF a < b THEN a ELSE b

(***************************************************************************)
(* C library functions the decoder uses                                    *)
(***************************************************************************)
\* s from its (k+1)-th character on: the pointer s + k, for k <= strlen(s).
Drop(s, k) == SubSeq(s, k + 1, Len(s))

\* The C string at byte offset p (from 1) of memory m: up to the first NUL.
CStr(m, p) ==
  LET stop == CHOOSE e \in p..Len(m) :
                m[e] = NUL /\ \A k \in p..(e - 1) : m[k] # NUL
  IN SubSeq(m, p, stop - 1)

\* strchr: the index (from 1) of the first c in s, 0 for a null result.
strchr(s, c) ==
  IF \E k \in 1..Len(s) : s[k] = c
  THEN CHOOSE k \in 1..Len(s) : s[k] = c /\ \A j \in 1..(k - 1) : s[j] # c
  ELSE 0

\* strstr(s, needle) != NULL
strstr(s, needle) ==
  \E k \in 1..(Len(s) - Len(needle) + 1) :
    SubSeq(s, k, k + Len(needle) - 1) = needle

\* The leading characters of s that satisfy isspace.
RECURSIVE SkipSpace(_)
SkipSpace(s) ==
  IF s # <<>> /\ IsSpace(s[1]) THEN SkipSpace(Tail(s)) ELSE s

\* The value of the longest run of base-`base` digits at the start of s,
\* continuing from acc.
RECURSIVE DigitRun(_, _, _)
DigitRun(s, base, acc) ==
  IF s # <<>> /\ IsHexDigit(s[1]) /\ DigitVal(s[1]) < base
  THEN DigitRun(Tail(s), base, acc * base + DigitVal(s[1]))
  ELSE acc

\* strtol(s, NULL, base) for base 10 or 16: white space, an optional sign, an
\* optional 0x (base 16, only when a hex digit follows), the digits; 0 when
\* there are none.
strtol(s, base) ==
  LET t == SkipSpace(s)
      neg == t # <<>> /\ t[1] = 45
      u == IF t # <<>> /\ (t[1] = 45 \/ t[1] = 43) THEN Tail(t) ELSE t
      v == IF base = 16 /\ Len(u) >= 3 /\ u[1] = 48 /\ (u[2] = 120 \/ u[2] = 88)
              /\ IsHexDigit(u[3])
           THEN Drop(u, 2) ELSE u
      n == DigitRun(v, base, 0)
  IN IF neg THEN -n ELSE n

\* Fixed-point units per one of a modelled float.
FScale == 10000

\* The number of leading decimal digits of s.
RECURSIVE DigitCount(_)
DigitCount(s) ==
  IF s # <<>> /\ IsDigit(s[1]) THEN 1 + DigitCount(Tail(s)) ELSE 0

\* The decimals at the start of s as a fixed-point fraction: the k-th decimal
\* counts FScale / 10^k.
RECURSIVE Fraction(_, _)
Fraction(s, unit) ==
  IF s # <<>> /\ IsDigit(s[1]) /\ unit > 0
  THEN DigitVal(s[1]) * unit + Fraction(Tail(s), unit \div 10)
  ELSE 0

\* strtof(s, NULL) in fixed point: white space, an optional sign, digits, an
\* optional point and decimals; 0 when there is no digit.
strtof(s) ==
  LET t == SkipSpace(s)
      neg == t # <<>> /\ t[1] = 45
      u == IF t # <<>> /\ (t[1] = 45 \/ t[1] = 43) THEN Tail(t) ELSE t
      w == DigitCount(u)
      rest == Drop(u, w)
      whole == DigitRun(u, 10, 0) * FScale
      frac == IF rest # <<>> /\ rest[1] = 46
              THEN Fraction(Tail(rest), FScale \div 10) ELSE 0
      n == whole + frac
  IN IF neg THEN -n ELSE n

\* memcpy(dst, src + off, n) into a zeroed char array longer than n, read back
\* as a C string: the characters of src from off on, at most n of them.
memcpy(src, off, n) == SubSeq(src, off + 1, Min(Len(src), off + n))

\* a ^ b on bytes
RECURSIVE BitXor(_, _)
BitXor(a, b) ==
  IF a = 0 THEN b
  ELSE IF b = 0 THEN a
  ELSE 2 * BitXor(a \div 2, b \div 2) + ((a + b) % 2)

(***************************************************************************)
(* getChecksum                                                             *)
(***************************************************************************)
\* A null char pointer.
NULL == <<-1>>

\* The XOR of the bytes s[lo..hi]; XOR is associative, so the running XOR of
\* the code's loop is computed by halves.
RECURSIVE XorSpan(_, _, _)
XorSpan(s, lo, hi) ==
  IF lo > hi THEN 0
  ELSE IF lo = hi THEN s[lo] % 256
  ELSE LET mid == (lo + hi) \div 2
       IN BitXor(XorSpan(s, lo, mid), XorSpan(s, mid + 1, hi))

\* calc_cs after the loop has run over the first n bytes of s.
XorBytes(s, n) == XorSpan(s, 1, n)

\* A variant of XorRange that takes the '*' into the range.
XorRangeWithStar(s, star) == XorBytes(s, star)

\* The XOR range of getChecksum: the characters before the '*'.
XorRange(s, star) == XorBytes(s, star - 1)

\* if (!star || strlen(star) < 3) return 0;
StarTooShort(s, star) == star = 0 \/ Len(s) - star + 1 < 3

getChecksum(s) ==
  IF s = NULL \/ Len(s) < 5 THEN 0
  ELSE LET star == strchr(s, 42) IN
    IF StarTooShort(s, star) THEN 0
    ELSE LET calc_cs == XorRange(s, star)
             cs_str == <<s[star + 1], s[star + 2]>>
             nmea_cs == strtol(cs_str, 16)
         IN IF calc_cs = nmea_cs THEN 1 ELSE 0

(***************************************************************************)
(* The field tokenizer of the four decoders                                *)
(***************************************************************************)
\* char *val[25]
MaxTokens == 25

\* while ((token = strsep(&p, ",")) != NULL && cnt < 25) val[cnt++] = copy;
\* p is the rest of the private copy, NULL once strsep has used it up.
RECURSIVE strsepLoop(_, _)
strsepLoop(p, val) ==
  IF p = NULL THEN val
  ELSE LET k == strchr(p, 44)
           token == IF k = 0 THEN p ELSE SubSeq(p, 1, k - 1)
           rest == IF k = 0 THEN NULL ELSE Drop(p, k)
       IN IF Len(val) < MaxTokens
          THEN strsepLoop(rest, Append(val, token))
          ELSE val

\* A variant of Tokens that yields no token for a sentence of more than
\* MaxTokens fields.
TokensFailOverCap(s) ==
  IF Len(SelectSeq(s, LAMBDA c : c = 44)) >= MaxTokens
  THEN <<>> ELSE strsepLoop(s, <<>>)

\* val[] after the split loop of a decoder; val[k] of the code is Tokens(s)[k+1].
Tokens(s) == strsepLoop(s, <<>>)

\* val[k][0]
First(val, k) == IF val[k + 1] = <<>> THEN NUL ELSE val[k + 1][1]

(***************************************************************************)
(* The decoders.  Each yields [ret, gps]: its return value and the FixRecord *)
(* it leaves.                                                              *)
(***************************************************************************)
\* whole + minutes / 60, in units of 1/(60*FScale) degree
Degrees(whole, minutes) == whole * 60 * FScale + minutes

\* 90 and 180 degrees, in those units
Deg(n) == n * 60 * FScale

\* The time of fix a decoder stores from token t (NULL: no such token).
TimeOrEmpty(t) ==
  IF t # NULL /\ Len(t) >= 9 THEN SubSeq(t, 1, 9) ELSE <<>>

\* A variant of GLL_time that keeps the stored time for a short val[5].
GLL_timeKeepsPrevious(g, val) ==
  IF Len(val) > 5 /\ Len(val[6]) >= 9 THEN SubSeq(val[6], 1, 9)
  ELSE g.lastMeasure

\* nmea_GLL's lastMeasure: val[5] when it has 9 characters, else cleared.
GLL_time(g, val) ==
  TimeOrEmpty(IF Len(val) > 5 THEN val[6] ELSE NULL)

nmea_GLL(g, s) ==
  LET val == Tokens(s)
      fail == [ret |-> 0, gps |-> g]
  IN IF Len(val) < 5 THEN fail
     ELSE LET lat_ind == First(val, 2) IN
       IF lat_ind = 78 \/ lat_ind = 83
       THEN LET lat_d_t == strtol(memcpy(val[2], 0, 2), 10)
                lat_m_t == strtof(memcpy(val[2], 2, 6))
                lon_ind == First(val, 4)
                lon_d_t == strtol(memcpy(val[4], 0, 3), 10)
                lon_m_t == strtof(memcpy(val[4], 3, 7))
            IN IF lat_d_t = 0 \/ lat_m_t = 0 \/ lon_d_t = 0 \/ lon_m_t = 0
               THEN fail
               ELSE [ret |-> 1,
                     gps |-> [g EXCEPT !.lat = Degrees(lat_d_t, lat_m_t),
                                       !.lon = Degrees(lon_d_t, lon_m_t),
                                       !.NS = lat_ind,
                                       !.EW = lon_ind,
                                       !.lastMeasure = GLL_time(g, val)]]
       ELSE fail

\* A variant of GSA_fix that takes fix type 1 for a fix.
GSA_fixFromOne(val) == IF strtol(val[3], 10) > 0 THEN 1 ELSE 0

\* gps_data->fix = fix > 1 ? 1 : 0;
GSA_fix(val) == IF strtol(val[3], 10) > 1 THEN 1 ELSE 0

nmea_GSA(g, s) ==
  LET val == Tokens(s)
  IN IF Len(val) < 15 THEN [ret |-> 0, gps |-> g]
     ELSE [ret |-> 1,
           gps |-> [g EXCEPT
                      !.fix = GSA_fix(val),
                      !.satelliteCount =
                         Cardinality({k \in 3..14 : First(val, k) # NUL})]]

\* A variant of GGA_signed that never negates.
GGA_signedAlways(ind, neg_ind, v) == v

\* gps_data->lat = (lat_ind == 'S' ? -lat : lat);
GGA_signed(ind, neg_ind, v) == IF ind = neg_ind THEN -v ELSE v

\* strtof(field, NULL) ?: previous
GGA_orPrevious(field, previous) ==
  IF strtof(field) # 0 THEN strtof(field) ELSE previous

nmea_GGA(g, s) ==
  LET val == Tokens(s)
  IN IF Len(val) < 10 THEN [ret |-> 0, gps |-> g]
     ELSE
       LET g1 == [g EXCEPT !.lastMeasure = TimeOrEmpty(val[2])]
           fail == [ret |-> 0, gps |-> g1]
           lat_ind == First(val, 3)
           lat == Degrees(strtol(memcpy(val[3], 0, 2), 10),
                          strtof(memcpy(val[3], 2, 6)))
           lon_ind == First(val, 5)
           lon == Degrees(strtol(memcpy(val[5], 0, 3), 10),
                          strtof(memcpy(val[5], 3, 7)))
       IN IF lat_ind # 78 /\ lat_ind # 83 THEN fail
          ELSE IF lat <= 0 \/ lat >= Deg(90) THEN fail
          ELSE IF lon_ind # 69 /\ lon_ind # 87 THEN fail
          ELSE IF lon <= 0 \/ lon >= Deg(180) THEN fail
          ELSE [ret |-> 1,
                gps |-> [g1 EXCEPT
                   !.lat = GGA_signed(lat_ind, 83, lat),
                   !.lon = GGA_signed(lon_ind, 87, lon),
                   !.fix = IF strtol(val[7], 10) > 0 THEN 1 ELSE 0,
                   !.satelliteCount = strtol(val[8], 10),
                   !.hdop = GGA_orPrevious(val[9], g.hdop),
                   !.altitude = GGA_orPrevious(val[10], g.altitude)]]

nmea_GSV(g, s) ==
  LET val == Tokens(s)
  IN IF Len(val) < 2 THEN [ret |-> 0, gps |-> g] ELSE [ret |-> 1, gps |-> g]

(***************************************************************************)
(* gpsParse                                                                *)
(***************************************************************************)
\* char* data [15];
DataSlots == 15

CRLF == <<13, 10>>

\* strtok(.., "$") scanning memory m from byte p on: the token's offset (0: a
\* null result), the memory with the token's closing '$' overwritten by NUL,
\* and the saved position of the next call.
strtok(m, p) ==
  LET q == CHOOSE q \in p..Len(m) :
             m[q] # 36 /\ \A k \in p..(q - 1) : m[k] = 36
  IN IF m[q] = NUL THEN [tok |-> 0, mem |-> m, save |-> q]
     ELSE LET e == CHOOSE e \in (q + 1)..Len(m) :
                     /\ m[e] = 36 \/ m[e] = NUL
                     /\ \A k \in (q + 1)..(e - 1) : m[k] # 36 /\ m[k] # NUL
          IN IF m[e] = 36
             THEN [tok |-> q, mem |-> [m EXCEPT ![e] = NUL], save |-> e + 1]
             ELSE [tok |-> q, mem |-> m, save |-> e]

\* The body of the dispatch loop for candidate c: which decoder runs ("skip":
\* no "\r\n" or a failed checksum; "none": no type tag), what it returns and
\* the FixRecord it leaves.
Dispatch(g, c) ==
  IF strstr(c, CRLF) /\ getChecksum(c) = 1
  THEN IF strstr(c, S("GLL")) THEN [dec |-> "GLL"] @@ nmea_GLL(g, c)
       ELSE IF strstr(c, S("GSA")) THEN [dec |-> "GSA"] @@ nmea_GSA(g, c)
       ELSE IF strstr(c, S("GGA")) THEN [dec |-> "GGA"] @@ nmea_GGA(g, c)
       ELSE IF strstr(c, S("GSV")) THEN [dec |-> "GSV"] @@ nmea_GSV(g, c)
       ELSE [dec |-> "none", ret |-> 0, gps |-> g]
  ELSE [dec |-> "skip", ret |-> 0, gps |-> g]

(***************************************************************************)
(* The inputs: sentences, receive buffers and starting FixRecords          *)
(***************************************************************************)
HexChar(n) == IF n < 10 THEN 48 + n ELSE 55 + n

Hex2(n) == <<HexChar(n \div 16), HexChar(n % 16)>>

\* body with its checksum and line end, without the leading '$'
Framed(body) == body \o <<42>> \o Hex2(XorBytes(body, Len(body))) \o CRLF

\* Sentences the decoders accept (RMC: well-formed, of no decoded type).
ValidSentences ==
  { Framed(S(b)) : b \in {
      "GPGGA,123519.00,4807.038,N,01131.000,E,1,08,0.9,545.4,M,46.9,M,,",
      "GPGGA,091500,3352.1234,S,15112.5000,W,0,05,0.0,0,M,,,,",
      "GPGLL,4916.450,N,12311.120,W,225444.00,A",
      "GPGLL,4807.038,S,01131.000,E,2254,A",
      "GPGSA,A,3,04,05,,09,12,,,24,,,,,2.5,1.3,2.1",
      "GPGSA,A,1,,,,,,,,,,,,,99.9,99.9,99.9",
      "GPGSV,3,1,11,03,03,111,00",
      "GPRMC,123519,A" } }
  \cup { S("GPGGA,123519,4807.038,N,01131.000,E,1,08,0.9,545.4,M,46.9,M,,*47\r\n"),
         S("GPGLL,4916.450,N,12311.120,W,225444.00,A*1f\r\n") }

\* Sentences with a good checksum that a decoder has to judge.
OddSentences ==
  { Framed(S(b)) : b \in {
      "GPGGA,101112.00,4807.038,X,01131.000,E,1,08,0.9,545.4,M",
      "GPGGA,101112.00,0000.000,N,01131.000,E,1,08,0.9,545.4,M",
      "GPGGA,101112.00,9000.000,S,01131.000,E,1,08,0.9,545.4,M",
      "GPGGA,101112.00,4807.038,N,18000.000,E,1,08,0.9,545.4,M",
      "GPGGA,101112.00,4807.038,N,01131.000,Q,1,08,0.9,545.4,M",
      "GPGGA,123519.00,4807.038,N",
      "GPGGA,,,,,,0,00,99.99,,,,,,",
      "GPGGA,131415.00,4807.038,N,01131.000,E,2,07,1.5,100.0,M,,,,,,,,,,,,,,,,,",
      "GPGLL,4916.450,X,12311.120,W,225444.00,A",
      "GPGLL,4916.450,N,12311.120,X,225444.00,A",
      "GPGLL,0016.450,N,12311.120,W,225444.00,A",
      "GPGLL,4916.450,N,12300.000,W,225444.00,A",
      "GPGLL,,,,,,V,N",
      "GPGLL,4916.450,N",
      "GPGLL,4807.038,N,01131.000,E",
      "GPGLL,3352.123,S,15112.500,E,161718.00,A,,,,,,,,,,,,,,,,,,,,",
      "GPGSA,A,3,04,05",
      "GPGSA,A,2,04,05,,09,12,,,24,,,,,2.5,1.3,2.1,,,,,,,,,,",
      "GPGSV",
      "GPGSV,1,1,,,,,,,,,,,,,,,,,,,,,,,,,",
      "GPGSA,A,3,04,05,,09,12,,,24,,,,,2.5,1.3,2.1,,,,,,,",
      "GPGSV,GSA,1" } }

\* Sentences the dispatcher has to drop: a wrong checksum, no line end, no
\* checksum at all.
BrokenSentences ==
  { S("GPGGA,123519.00,4807.038,S,01131.000,W,1,03,0.9,545.4,M,46.9,M,,*00\r\n"),
    S("GPGSA,A,3,04,05,,09,12,,,24,,,,,2.5,1.3,2.1*39"),
    S("GPGLL,4916.450,N,12311.120,W,225444.00,A\r\n"),
    S("A") }

Pool == ValidSentences \cup OddSentences \cup BrokenSentences

\* The sentences that may precede the last one of a buffer.
CorePool ==
  { Framed(S(b)) : b \in {
      "GPGGA,123519.00,4807.038,N,01131.000,E,1,08,0.9,545.4,M,46.9,M,,",
      "GPGLL,4916.450,N,12311.120,W,225444.00,A",
      "GPGSA,A,3,04,05,,09,12,,,24,,,,,2.5,1.3,2.1",
      "GPGGA,101112.00,4807.038,X,01131.000,E,1,08,0.9,545.4,M" } }
  \cup { S("GPGGA,123519.00,4807.038,S,01131.000,W,1,03,0.9,545.4,M,46.9,M,,*00\r\n") }

\* The most sentences of a buffer, the most gpsParse calls on one buffer.
MaxSentences == 2
MaxCalls == 2

\* The buffer that holds the candidates of cs, each after a '$', and the NUL.
RECURSIVE BufferOf(_)
BufferOf(cs) ==
  IF cs = <<>> THEN <<NUL>> ELSE <<36>> \o Head(cs) \o BufferOf(Tail(cs))

RECURSIVE SeqsUpTo(_, _)
SeqsUpTo(set, n) ==
  IF n = 0 THEN {<<>>}
  ELSE LET shorter == SeqsUpTo(set, n - 1)
       IN shorter \cup { Append(q, x) : q \in shorter, x \in set }

Repeat(x, n) == [k \in 1..n |-> x]

\* GSA, then a GGA with a wrong checksum, then GLL.
ExampleCandidates ==
  << Framed(S("GPGSA,A,3,04,05,,09,12,,,24,,,,,2.5,1.3,2.1")),
     S("GPGGA,123519.00,4807.038,S,01131.000,W,1,03,0.9,545.4,M,46.9,M,,*00\r\n"),
     Framed(S("GPGLL,4916.450,N,12311.120,W,225444.00,A")) >>

\* Candidate lists that fill the scratch array exactly, and overfill it.
ManyCandidates ==
  { Append(Repeat(S("A"), n), Framed(S("GPGSA,A,3,04,05,,09,12,,,24,,,,,2.5,1.3,2.1"))) :
      n \in {DataSlots - 1, DataSlots} }

CandidateLists ==
  { Append(q, x) : q \in SeqsUpTo(CorePool, MaxSentences - 1), x \in Pool }
  \cup {ExampleCandidates} \cup ManyCandidates

Buffers == { BufferOf(cs) : cs \in CandidateLists }

\* Buffers of valid sentences only, at most DataSlots of them.
ValidBuffers ==
  { BufferOf(cs) : cs \in SeqsUpTo(ValidSentences, MaxSentences) \ {<<>>} }

\* A FixRecord as a zeroed global, and one a previous fix has filled.
InitRecords ==
  { [lat |-> 0, NS |-> NUL, lon |-> 0, EW |-> NUL, altitude |-> 0, hdop |-> 0,
     satelliteCount |-> 0, fix |-> 0, lastMeasure |-> <<>>],
    [lat |-> Degrees(10, 30 * FScale), NS |-> 83, lon |-> Degrees(20, 15 * FScale),
     EW |-> 87, altitude |-> 12 * FScale, hdop |-> 3 * FScale,
     satelliteCount |-> 4, fix |-> 1, lastMeasure |-> S("010203.00")] }

\* What the dispatch loop did last in the current call.
NoCall == [dec |-> "", s |-> <<>>, ret |-> 0, pre |-> <<>>]

(***************************************************************************)
(* The state machine                                                        *)
(***************************************************************************)
Init ==
  /\ gps \in InitRecords
  /\ buffer \in Buffers
  /\ orig = buffer
  /\ data = <<>>
  /\ cnt = 0
  /\ i = 0
  /\ sentence = 0
  /\ save = 0
  /\ pc = "idle"
  /\ calls = 0
  /\ last = NoCall
  /\ gps0 = gps
  /\ buf0 = buffer
  /\ cs_in = NULL
  /\ cs_ret = 0

\* gpsParse is entered: memset(data), the first strtok, cnt = 0.  The caller
\* passes the same FixRecord and the same buffer memory on every call.
gpsParseEnter ==
  /\ pc \in {"idle", "done"}
  /\ calls < MaxCalls
  /\ LET r == strtok(buffer, 1)
     IN /\ sentence' = r.tok
        /\ buffer' = r.mem
        /\ save' = r.save
  /\ data' = <<>>
  /\ cnt' = 0
  /\ i' = 0
  /\ pc' = "split"
  /\ calls' = calls + 1
  /\ last' = NoCall
  /\ gps0' = gps
  /\ buf0' = buffer
  /\ UNCHANGED <<gps, orig, cs_in, cs_ret>>

\* One turn of the split loop: data[cnt++] = copy of sentence; next strtok.
SplitStore ==
  /\ pc = "split"
  /\ sentence # 0
  /\ cnt < DataSlots
  /\ data' = Append(data, CStr(buffer, sentence))
  /\ cnt' = cnt + 1
  /\ LET r == strtok(buffer, save)
     IN /\ sentence' = r.tok
        /\ buffer' = r.mem
        /\ save' = r.save
  /\ UNCHANGED <<gps, i, pc, calls, last, gps0, buf0, orig, cs_in, cs_ret>>

\* The pointer a store past the end of data[] puts over its neighbour.
StrayPointer(g) ==
  { [g EXCEPT !.lat = 536871000], [g EXCEPT !.satelliteCount = 536871000] }

\* The same turn with cnt >= 15: the store goes past the end of data[].  The
\* code has no check; the word after the array is either unused by the rest
\* of the call, or part of another object, here the caller's FixRecord.  The
\* dispatch loop reads the pointer back from the same place.
SplitOverflow ==
  /\ pc = "split"
  /\ sentence # 0
  /\ cnt >= DataSlots
  /\ \/ gps' = gps
     \/ gps' \in StrayPointer(gps)
  /\ data' = Append(data, CStr(buffer, sentence))
  /\ cnt' = cnt + 1
  /\ LET r == strtok(buffer, save)
     IN /\ sentence' = r.tok
        /\ buffer' = r.mem
        /\ save' = r.save
  /\ UNCHANGED <<i, pc, calls, last, gps0, buf0, orig, cs_in, cs_ret>>

\* sentence == NULL: the split loop ends.
SplitEnd ==
  /\ pc = "split"
  /\ sentence = 0
  /\ pc' = "dispatch"
  /\ i' = 0
  /\ UNCHANGED <<gps, buffer, data, cnt, sentence, save, calls, last, gps0,
                 buf0, orig, cs_in, cs_ret>>

\* One turn of the dispatch loop, for data[i].
DispatchStep ==
  /\ pc = "dispatch"
  /\ i < cnt
  /\ LET c == data[i + 1]
         r == Dispatch(gps, c)
     IN /\ gps' = r.gps
        /\ last' = [dec |-> r.dec, s |-> c, ret |-> r.ret, pre |-> gps]
        /\ IF strstr(c, CRLF)
           THEN cs_in' = c /\ cs_ret' = getChecksum(c)
           ELSE UNCHANGED <<cs_in, cs_ret>>
  /\ i' = i + 1
  /\ UNCHANGED <<buffer, data, cnt, sentence, save, pc, calls, gps0, buf0, orig>>

\* The dispatch loop ends: every data[i] is freed and gpsParse returns.
gpsParseReturn ==
  /\ pc = "dispatch"
  /\ i = cnt
  /\ data' = <<>>
  /\ pc' = "done"
  /\ UNCHANGED <<gps, buffer, cnt, i, sentence, save, calls, last, gps0, buf0,
                 orig, cs_in, cs_ret>>

Next ==
  \/ gpsParseEnter
  \/ SplitStore
  \/ SplitOverflow
  \/ SplitEnd
  \/ DispatchStep
  \/ gpsParseReturn

Spec == Init /\ [][Next]_vars

(***************************************************************************)
(* getChecksum on its own: every short string over an alphabet that holds  *)
(* the '*', hex digits of both cases and a letter that is no hex digit      *)
(* ('K' ^ 'A' = 0x0A), the sentences above, and strings whose two checksum  *)
(* characters hold white space, a sign or "0x".                            *)
(***************************************************************************)
MaxChkLen == 6

ChkAlphabet == {75, 65, 42, 48, 97}

ChkInputs ==
  SeqsUpTo(ChkAlphabet, MaxChkLen) \cup Pool \cup {NULL}
  \cup { S("KA* a"), S("KA*\ra\n"), S("KA*+a"), S("KA*-a"), S("AA*0x"),
         S("AA*0XA"), S("AA*-0"), S("AA*\r\n"), S("KA*a\r\n"), S("0K*7B\r\n") }

InitChk ==
  /\ cs_in \in ChkInputs
  /\ cs_ret = 0
  /\ pc = "chk"
  /\ gps \in { r \in InitRecords : r.fix = 0 }
  /\ buffer = <<NUL>>
  /\ orig = buffer
  /\ data = <<>>
  /\ cnt = 0
  /\ i = 0
  /\ sentence = 0
  /\ save = 0
  /\ calls = 0
  /\ last = NoCall
  /\ gps0 = gps
  /\ buf0 = buffer

\* getChecksum(cs_in) is called.
ChkApply ==
  /\ pc = "chk"
  /\ cs_ret' = getChecksum(cs_in)
  /\ pc' = "chkdone"
  /\ UNCHANGED <<gps, buffer, data, cnt, i, sentence, save, calls, last, gps0,
                 buf0, orig, cs_in>>

NextChk == ChkApply

SpecChk == InitChk /\ [][NextChk]_vars

(***************************************************************************)
(* What the claims speak of                                                *)
(***************************************************************************)
\* The comma-separated fields of a sentence, all of them; field [k] is
\* FieldsOf(s)[k + 1].
RECURSIVE FieldsOf(_)
FieldsOf(s) ==
  LET k == strchr(s, 44)
  IN IF k = 0 THEN <<s>> ELSE <<SubSeq(s, 1, k - 1)>> \o FieldsOf(Drop(s, k))

NumCommas(s) == Cardinality({k \in 1..Len(s) : s[k] = 44})

\* The first character of a field, NUL for an empty one.
Initial(f) == IF f = <<>> THEN NUL ELSE f[1]

\* The candidates of a buffer's text: its pieces between '$', empty ones left out.
RECURSIVE Candidates(_)
Candidates(s) ==
  IF s = <<>> THEN <<>>
  ELSE LET k == strchr(s, 36)
       IN IF k = 0 THEN <<s>>
          ELSE IF k = 1 THEN Candidates(Tail(s))
          ELSE <<SubSeq(s, 1, k - 1)>> \o Candidates(Drop(s, k))

\* The FixRecord after the decoders of the candidates cs, in order, from g.
RECURSIVE ApplyAll(_, _)
ApplyAll(g, cs) ==
  IF cs = <<>> THEN g ELSE ApplyAll(Dispatch(g, Head(cs)).gps, Tail(cs))

\* Bit b of the XOR of the first n bytes of s is the parity of the bytes that
\* have bit b set.
ParityXor(s, n) ==
  LET bit(b) == Cardinality({k \in 1..n : (s[k] \div (2 ^ b)) % 2 = 1}) % 2
  IN bit(0) + 2 * bit(1) + 4 * bit(2) + 8 * bit(3) + 16 * bit(4) + 32 * bit(5)
     + 64 * bit(6) + 128 * bit(7)

\* Two characters read as a hexadecimal number: both digits, or the one digit
\* that leads, or that follows white space or a sign; 0 when no digit leads.
HexPair(c, d) ==
  IF IsHexDigit(c) /\ IsHexDigit(d) THEN 16 * DigitVal(c) + DigitVal(d)
  ELSE IF IsHexDigit(c) THEN DigitVal(c)
  ELSE IF (IsSpace(c) \/ c = 43) /\ IsHexDigit(d) THEN DigitVal(d)
  ELSE IF c = 45 /\ IsHexDigit(d) THEN -DigitVal(d)
  ELSE 0

\* The decoder named dec on sentence s.
RunDecoder(dec, g, s) ==
  CASE dec = "GLL" -> nmea_GLL(g, s)
    [] dec = "GSA" -> nmea_GSA(g, s)
    [] dec = "GGA" -> nmea_GGA(g, s)
    [] dec = "GSV" -> nmea_GSV(g, s)

Decoders == {"GLL", "GSA", "GGA", "GSV"}

\* s up to its n-th comma, the comma left out.
CutAtComma(s, n) ==
  LET at == CHOOSE k \in 1..Len(s) :
              s[k] = 44 /\ Cardinality({j \in 1..k : s[j] = 44}) = n
  IN SubSeq(s, 1, at - 1)

\* The decoders copy no byte from outside a token: a coordinate field that
\* reaches the memcpy calls holds the 8 (latitude) or 10 (longitude) bytes read.
NoShortCopy ==
  LET f == FieldsOf(last.s)
  IN /\ (last.dec = "GLL" /\ Len(f) >= 5 /\ Initial(f[3]) \in {78, 83})
          => Len(f[2]) >= 7 /\ Len(f[4]) >= 9
     /\ (last.dec = "GGA" /\ Len(f) >= 10 /\ Initial(f[4]) \in {78, 83})
          => Len(f[3]) >= 7
     /\ (last.dec = "GGA" /\ Len(f) >= 10 /\ Initial(f[4]) \in {78, 83}
           /\ Initial(f[6]) \in {69, 87})
          => Len(f[5]) >= 9

(***************************************************************************)
(* The claims                                                              *)
(***************************************************************************)
\* C1: when gpsParse returns, the FixRecord is the result of applying, in
\* buffer order, the decoder of each '$'-separated candidate that holds "\r\n"
\* and passes getChecksum to the FixRecord it was called with; a candidate
\* that lacks "\r\n" or fails the checksum changes no field; every candidate
\* has had its turn.
C1_DispatchInOrder ==
  /\ pc = "done" => gps = ApplyAll(gps0, Candidates(CStr(buf0, 1)))
  /\ last.dec = "skip" => gps = last.pre
  /\ pc = "done" => i = Len(Candidates(CStr(buf0, 1)))

C3_GGARejectKeepsRecord ==
  (last.dec = "GGA" /\ last.ret = 0) => gps = last.pre

\* C4: nmea_GLL rejects, and changes no field, when field [2] does not begin
\* with N or S or field [4] does not begin with E or W; so the stored
\* hemispheres are N or S and E or W, or their starting values.
C4_GLLHemispheres ==
  /\ LET f == FieldsOf(last.s)
     IN (/\ last.dec = "GLL"
         /\ \/ Len(f) < 5
            \/ Initial(f[3]) \notin {78, 83}
            \/ Initial(f[5]) \notin {69, 87})
        => (last.ret = 0 /\ gps = last.pre)
  /\ gps.NS \in {78, 83} \cup {r.NS : r \in InitRecords}
  /\ gps.EW \in {69, 87} \cup {r.EW : r \in InitRecords}

C6_GSA ==
  last.dec = "GSA" =>
    LET f == FieldsOf(last.s)
    IN IF Len(f) >= 15
       THEN /\ last.ret = 1
            /\ gps.fix = IF strtol(f[3], 10) > 1 THEN 1 ELSE 0
            /\ gps.satelliteCount = Cardinality({k \in 3..14 : f[k + 1] # <<>>})
            /\ gps.satelliteCount \in 0..12
            /\ gps = [last.pre EXCEPT !.fix = gps.fix,
                                      !.satelliteCount = gps.satelliteCount]
       ELSE last.ret = 0 /\ gps = last.pre

\* C6's case: a GSA sentence with fix type 1 cleared the fix flag and the
\* count of a FixRecord that held a position.
C6_Witness ==
  /\ last.dec = "GSA"
  /\ last.ret = 1
  /\ strtol(FieldsOf(last.s)[3], 10) = 1
  /\ last.pre.fix = 1
  /\ gps.fix = 0
  /\ last.pre.lat # 0

\* C7: a second gpsParse on the same buffer memory, which held valid
\* sentences before the first call, leaves the FixRecord as the first call
\* left it.
C7_SecondCallChangesNothing ==
  (calls >= 2 /\ pc = "done" /\ orig \in ValidBuffers) => gps = gps0

\* C8 as stated: a sentence of more than 25 fields makes its decoder fail and
\* change nothing.
C8_OverCapFails ==
  (last.dec \in Decoders /\ NumCommas(last.s) >= MaxTokens) =>
    (last.ret = 0 /\ gps = last.pre)

\* C8 amended: a sentence of more than 25 fields is decoded as the sentence
\* made of its first 25 fields is; a GSA or GSV sentence of that length is
\* accepted; and the loop goes on to the candidates after it.
C8_OverCapTruncates ==
  /\ (last.dec \in Decoders /\ NumCommas(last.s) >= MaxTokens) =>
       LET r == RunDecoder(last.dec, last.pre, CutAtComma(last.s, MaxTokens))
       IN /\ last.ret = r.ret
          /\ gps = r.gps
          /\ last.dec \in {"GSA", "GSV"} => last.ret = 1
  /\ pc = "done" => i = cnt

\* C8's case: a GSA sentence of more than 25 fields changed the FixRecord.
C8_Witness ==
  /\ last.dec = "GSA"
  /\ NumCommas(last.s) >= MaxTokens
  /\ last.ret = 1
  /\ gps # last.pre

\* C9 as stated: when nmea_GLL accepts a sentence whose field [5] is absent or
\* shorter than 9 characters the time of fix keeps its previous value; with 9
\* characters or more it is the first 9; nmea_GGA clears it for a short
\* field [1].
C9_GLLKeepsTime ==
  LET f == FieldsOf(last.s)
  IN /\ (last.dec = "GLL" /\ last.ret = 1 /\ (Len(f) < 6 \/ Len(f[6]) < 9))
          => gps.lastMeasure = last.pre.lastMeasure
     /\ (last.dec = "GLL" /\ last.ret = 1 /\ Len(f) >= 6 /\ Len(f[6]) >= 9)
          => gps.lastMeasure = SubSeq(f[6], 1, 9)
     /\ (last.dec = "GGA" /\ last.ret = 1 /\ Len(f[2]) < 9)
          => gps.lastMeasure = <<>>

\* C9 amended: when nmea_GLL accepts a sentence whose field [5] is absent or
\* shorter than 9 characters the time of fix is cleared to the empty string,
\* as nmea_GGA clears it for a short field [1]; with 9 characters or more it
\* is the first 9.
C9_GLLClearsTime ==
  LET f == FieldsOf(last.s)
  IN /\ (last.dec = "GLL" /\ last.ret = 1 /\ (Len(f) < 6 \/ Len(f[6]) < 9))
          => gps.lastMeasure = <<>>
     /\ (last.dec = "GLL" /\ last.ret = 1 /\ Len(f) >= 6 /\ Len(f[6]) >= 9)
          => gps.lastMeasure = SubSeq(f[6], 1, 9)
     /\ (last.dec = "GGA" /\ last.ret = 1 /\ Len(f[2]) < 9)
          => gps.lastMeasure = <<>>

\* C9's case: nmea_GLL accepted a sentence with a short time field over a
\* FixRecord that held a time of fix.
C9_Witness ==
  /\ last.dec = "GLL"
  /\ last.ret = 1
  /\ Len(FieldsOf(last.s)) >= 6
  /\ Len(FieldsOf(last.s)[6]) < 9
  /\ last.pre.lastMeasure # <<>>
  /\ gps.lastMeasure = <<>>

\* C10: the candidate counter never exceeds 15, so only slots 0..14 of data
\* are written.
C10_SlotsInBounds ==
  cnt <= DataSlots /\ Len(data) <= DataSlots

====
